---- MODULE Spec2Model ----
(***************************************************************************)
(* Model of src/agentscope/models/ollama_model.py: the three Ollama model  *)
(* wrappers (chat, embedding, generation), the streaming generator of the  *)
(* chat wrapper, and the bookkeeping each call performs (saved invocation  *)
(* records and monitor updates).                                           *)
(*                                                                         *)
(* Python values are represented as follows.                               *)
(*   - A dict is a TLA+ function over its keys; `k in d` is                *)
(*     k \in DOMAIN d, the empty dict is <<>>, and {**a, **b} is b @@ a.   *)
(*   - An Optional value is None (= <<>>) or Some(v) (= <<v>>).            *)
(*   - A str is a TLA+ string; s + t is s \o t.                            *)
(*   - An embedding vector is a sequence of integers.                      *)
(* The variables call, forwarded, reply, result, saved, monitor describe   *)
(* the most recent call on the wrapper: each call starts by resetting them.*)
(*                                                                         *)
(* Modelling decisions.                                                    *)
(*   - One wrapper object is under observation; Init chooses its class     *)
(*     (self.kind) and its constructor arguments.                          *)
(*   - The caller is sequential: it makes a new call only once the         *)
(*     generator of a streaming call is exhausted or closed.               *)
(*   - `if formatted_usage:` is taken as `formatted_usage is not None`:    *)
(*     a ChatUsage object is truthy whatever its counts.                   *)
(*   - Every chunk of a stream carries message.content, as the client      *)
(*     delivers it; a non-streaming reply may lack any field.              *)
(*   - The final-chunk substitution mutates the chunk in place; the model  *)
(*     keeps the substituted chunk in gen.last_chunk and in the record.    *)
(***************************************************************************)
EXTENDS Integers, Sequences, FiniteSets, TLC

\* Bound of the model.
MaxChunks == 2      \* longest chunk sequence the streaming client delivers

None == <<>>
Some(v) == <<v>>
Val(o) == o[1]

\* ------------------------------------------------------------------------
\* Input domains
\* ------------------------------------------------------------------------
\* Constructor defaults: none, one key, two keys.
CtorOptions ==
    {None, Some([temperature |-> 0]), Some([temperature |-> 0, seed |-> 0])}
\* Per-call options: none, a key that conflicts with the defaults, a key
\* that may be absent from the defaults.
CallOptions ==
    {None, Some([temperature |-> 1]), Some([seed |-> 1])}

ModelName == "llama3"
Messages == <<[role |-> "user", content |-> "hello"]>>
Prompt == "hello"

CtorKeepAlives == {"5m", "1h"}
CallKeepAlives == {None, Some(""), Some("10m")}
CallStreams == {None, Some(TRUE), Some(FALSE)}

\* The optional counters of a reply: each of prompt_eval_count and
\* eval_count is present or not, independently.
CountParts ==
    {pe @@ ev : pe \in {<<>>, [prompt_eval_count |-> 1]},
                ev \in {<<>>, [eval_count |-> 0], [eval_count |-> 2]}}

\* Replies of client.chat(stream=False): message may be absent, or lack
\* its content.
ChatReplies ==
    {m @@ c : m \in {<<>>, [message |-> [role |-> "assistant"]],
                     [message |-> [role |-> "assistant", content |-> "hi"]]},
              c \in CountParts}

\* Replies of client.generate: response may be absent.
GenerationReplies ==
    {r @@ c : r \in {<<>>, [response |-> "hi"]}, c \in CountParts}

\* Replies of client.embeddings: embedding may be absent.
EmbeddingReplies ==
    {<<>>, [embedding |-> <<1>>], [embedding |-> <<1, 2>>]}

\* Chunks of client.chat(stream=True): every chunk carries message.content;
\* a chunk may carry the counters.
Chunks ==
    {[message |-> [role |-> "assistant", content |-> "A"]],
     [message |-> [role |-> "assistant", content |-> "B"],
      prompt_eval_count |-> 1, eval_count |-> 2]}
ChunkSeqs == UNION {[1..n -> Chunks] : n \in 0..MaxChunks}

\* ------------------------------------------------------------------------
\* State
\* ------------------------------------------------------------------------
VARIABLES
    self,       \* the wrapper object: kind, model_name, options, keep_alive, stream
    call,       \* Some(arguments of the most recent __call__), or None
    forwarded,  \* Some(keyword arguments passed to the client), or None
    reply,      \* Some(object the client returned), or None
    result,     \* outcome of the call: returned envelope or raised error
    saved,      \* invocation records saved for the call
    monitor,    \* monitor updates made for the call
    gen,        \* the generator of a streaming chat call
    yielded     \* the values the generator has yielded so far

vars == <<self, call, forwarded, reply, result, saved, monitor, gen, yielded>>

NoGen == [pc |-> "none", response |-> <<>>, chunk |-> <<>>, last_chunk |-> <<>>,
          text |-> "", kwargs |-> None]

Idle == [status |-> "idle", envelope |-> None, error |-> ""]
Returned(env) == [status |-> "returned", envelope |-> Some(env), error |-> ""]
Raised(e) == [status |-> "raised", envelope |-> None, error |-> e]

\* OllamaWrapperBase.__init__ / OllamaChatWrapper.__init__
Init ==
    /\ self \in
         {[kind |-> "chat", model_name |-> ModelName, options |-> o,
           keep_alive |-> k, stream |-> s] :
              o \in CtorOptions, k \in CtorKeepAlives, s \in BOOLEAN}
         \cup
         {[kind |-> kd, model_name |-> ModelName, options |-> o,
           keep_alive |-> k, stream |-> FALSE] :
              kd \in {"embedding", "generation"}, o \in CtorOptions, k \in CtorKeepAlives}
    /\ call = None
    /\ forwarded = None
    /\ reply = None
    /\ result = Idle
    /\ saved = <<>>
    /\ monitor = <<>>
    /\ gen = NoGen
    /\ yielded = <<>>

\* ------------------------------------------------------------------------
\* Parameter preparation (step1 of every __call__)
\* ------------------------------------------------------------------------

\* {**self.options, **options} raises TypeError when self.options is None:
\* None is not a mapping.
MergeRaises(self_options, options) ==
    options # None /\ self_options = None

\* if options is None: options = self.options
\* else: options = {**self.options, **options}
MergeOptions(self_options, options) ==
    IF options = None
    THEN self_options
    ELSE Some(Val(options) @@ Val(self_options))

\* keep_alive = keep_alive or self.keep_alive
\* (None and the empty string are both falsy)
EffectiveKeepAlive(keep_alive, self_keep_alive) ==
    IF keep_alive # None /\ Val(keep_alive) # ""
    THEN Val(keep_alive)
    ELSE self_keep_alive

\* stream = stream or self.stream
EffectiveStreamOr(stream, self_stream) ==
    IF stream # None /\ Val(stream) THEN TRUE ELSE self_stream

\* if stream is None: stream = self.stream
EffectiveStream(stream, self_stream) ==
    IF stream = None THEN self_stream ELSE Val(stream)

\* ------------------------------------------------------------------------
\* Usage records, invocation records, monitor updates
\* ------------------------------------------------------------------------

\* ChatUsage(prompt_tokens=..., completion_tokens=...)
ChatUsage(p, c) == [prompt_tokens |-> p, completion_tokens |-> c]

\* response.get(key, default)
Get(response, key, default) ==
    IF key \in DOMAIN response THEN response[key] ELSE default

\* Chat wrapper: formatted_usage, a ChatUsage when the reply carries both
\* counters, else None.
ChatFormattedUsage(response) ==
    IF "prompt_eval_count" \in DOMAIN response /\ "eval_count" \in DOMAIN response
    THEN Some(ChatUsage(Get(response, "prompt_eval_count", 0),
                        Get(response, "eval_count", 0)))
    ELSE None

\* A usage record that is zero-filled instead of absent.
FormattedUsageZeroFilled(response) ==
    Some(ChatUsage(Get(response, "prompt_eval_count", 0),
                   Get(response, "eval_count", 0)))

\* Generation wrapper: formatted_usage, same condition.
FormattedUsage(response) ==
    IF "prompt_eval_count" \in DOMAIN response /\ "eval_count" \in DOMAIN response
    THEN Some(ChatUsage(Get(response, "prompt_eval_count", 0),
                        Get(response, "eval_count", 0)))
    ELSE None

\* self._save_model_invocation(arguments=..., response=..., usage=...)
Invocation(arguments, response, usage) ==
    [arguments |-> arguments, response |-> response, usage |-> usage]

\* self.monitor.update_text_and_embedding_tokens(model_name=..., ...):
\* the keyword arguments of one update; an omitted count is None.
MonitorUpdate(model_name, prompt_tokens, completion_tokens) ==
    [model_name |-> model_name, prompt_tokens |-> prompt_tokens,
     completion_tokens |-> completion_tokens]

\* Chat wrapper, _save_model_invocation_and_update_monitor: the monitor is
\* updated, with the model name only, when a usage record was built.
ChatMonitorUpdates(model_name, response) ==
    IF ChatFormattedUsage(response) # None
    THEN <<MonitorUpdate(model_name, None, None)>>
    ELSE <<>>

\* Chat wrapper, _save_model_invocation_and_update_monitor: the record saved.
ChatSaved(kwargs, response) ==
    <<Invocation(kwargs, response, ChatFormattedUsage(response))>>

\* Generation wrapper, step4: the monitor is updated with the explicit
\* counts when a usage record was built.
GenerationMonitorUpdates(model_name, response) ==
    IF FormattedUsage(response) # None
    THEN <<MonitorUpdate(model_name,
                         Some(Get(response, "prompt_eval_count", 0)),
                         Some(Get(response, "eval_count", 0)))>>
    ELSE <<>>

\* ------------------------------------------------------------------------
\* Response envelopes: ModelResponse(text=, embedding=, stream=, raw=)
\* ------------------------------------------------------------------------
ModelResponse(text, embedding, stream, raw) ==
    [text |-> text, embedding |-> embedding, stream |-> stream, raw |-> raw]

\* A streaming envelope that also fills the text field.
ChatStreamEnvelopeWithText(response) ==
    ModelResponse(Some(""), None, Some("generator"), Some(response))

\* ModelResponse(stream=generator(), raw=response)
ChatStreamEnvelope(response) ==
    ModelResponse(None, None, Some("generator"), Some(response))

\* ModelResponse(text=response["message"]["content"], raw=response)
ChatEnvelope(response) ==
    ModelResponse(Some(response["message"]["content"]), None, None, Some(response))

\* [response["embedding"]]
EmbeddingPayload(response) ==
    <<response["embedding"]>>

\* ModelResponse(embedding=[response["embedding"]], raw=response)
EmbeddingEnvelope(response) ==
    ModelResponse(None, Some(EmbeddingPayload(response)), None, Some(response))

\* ModelResponse(text=response["response"], raw=response)
GenerationEnvelope(response) ==
    ModelResponse(Some(response["response"]), None, None, Some(response))

\* response["message"]["content"] raises KeyError
ChatContentMissing(response) ==
    \/ "message" \notin DOMAIN response
    \/ "content" \notin DOMAIN response["message"]

\* ------------------------------------------------------------------------
\* OllamaChatWrapper.__call__
\* ------------------------------------------------------------------------
GenActive == gen.pc \in {"created", "suspended"}

\* The call raises before the client is reached.
FailBeforeClient(e) ==
    /\ forwarded' = None
    /\ reply' = None
    /\ result' = Raised(e)
    /\ saved' = <<>>
    /\ monitor' = <<>>
    /\ gen' = NoGen
    /\ yielded' = <<>>

\* The client raises (transport or server error); it is propagated.
ClientFails(kwargs) ==
    /\ forwarded' = Some(kwargs)
    /\ reply' = None
    /\ result' = Raised("ResponseError")
    /\ saved' = <<>>
    /\ monitor' = <<>>
    /\ gen' = NoGen
    /\ yielded' = <<>>

ChatKwargs(stream, options, keep_alive) ==
    [model |-> self.model_name,
     messages |-> Messages,
     stream |-> EffectiveStream(stream, self.stream),
     options |-> MergeOptions(self.options, options),
     keep_alive |-> EffectiveKeepAlive(keep_alive, self.keep_alive)]

\* Non-streaming branch: record first, then read the text.
ChatReturn(kwargs, response) ==
    /\ forwarded' = Some(kwargs)
    /\ reply' = Some(response)
    /\ monitor' = ChatMonitorUpdates(self.model_name, response)
    /\ saved' = ChatSaved(kwargs, response)
    /\ result' = IF ChatContentMissing(response)
                 THEN Raised("KeyError")
                 ELSE Returned(ChatEnvelope(response))
    /\ gen' = NoGen
    /\ yielded' = <<>>

\* Streaming branch: the generator is created, nothing has run yet.
ChatReturnStream(kwargs, response) ==
    /\ forwarded' = Some(kwargs)
    /\ reply' = Some(response)
    /\ monitor' = <<>>
    /\ saved' = <<>>
    /\ result' = Returned(ChatStreamEnvelope(response))
    /\ gen' = [pc |-> "created", response |-> response, chunk |-> <<>>,
               last_chunk |-> <<>>, text |-> "", kwargs |-> Some(kwargs)]
    /\ yielded' = <<>>

ChatCall(stream, options, keep_alive) ==
    /\ self.kind = "chat"
    /\ ~GenActive
    /\ call' = Some([stream |-> stream, options |-> options, keep_alive |-> keep_alive])
    /\ UNCHANGED self
    /\ IF MergeRaises(self.options, options)
       THEN FailBeforeClient("TypeError")
       ELSE LET kwargs == ChatKwargs(stream, options, keep_alive) IN
            \/ ClientFails(kwargs)
            \/ /\ ~kwargs.stream
               /\ \E response \in ChatReplies : ChatReturn(kwargs, response)
            \/ /\ kwargs.stream
               /\ \E response \in ChunkSeqs : ChatReturnStream(kwargs, response)

\* ------------------------------------------------------------------------
\* The generator of a streaming chat call
\* ------------------------------------------------------------------------

\* The delta alone, not the text so far.
AccumulateDelta(text, chunk) ==
    chunk["message"]["content"]

\* text += chunk["message"]["content"]
Accumulate(text, chunk) ==
    text \o chunk["message"]["content"]

\* last_chunk["message"]["content"] = text
ReplaceContent(last_chunk, text) ==
    [last_chunk EXCEPT !["message"] = ("content" :> text) @@ @]

\* One next() on the generator: it runs from its start, or from the yield
\* where it is suspended, to the next yield or to its end.
GenNext ==
    /\ GenActive
    /\ LET last_chunk == IF gen.pc = "suspended" THEN gen.chunk ELSE <<>> IN
       IF gen.response # <<>>
       THEN \* for chunk in response: text += ...; yield text
            LET chunk == Head(gen.response)
                text == Accumulate(gen.text, chunk) IN
            /\ gen' = [gen EXCEPT !.pc = "suspended",
                                  !.response = Tail(gen.response),
                                  !.chunk = chunk,
                                  !.last_chunk = last_chunk,
                                  !.text = text]
            /\ yielded' = Append(yielded, text)
            /\ UNCHANGED <<saved, monitor>>
       ELSE IF "message" \notin DOMAIN last_chunk
       THEN \* no chunk was received: last_chunk is {} and the
            \* assignment raises KeyError
            /\ gen' = [gen EXCEPT !.pc = "raised", !.last_chunk = last_chunk]
            /\ UNCHANGED <<saved, monitor, yielded>>
       ELSE LET final == ReplaceContent(last_chunk, gen.text) IN
            /\ gen' = [gen EXCEPT !.pc = "done", !.last_chunk = final]
            /\ monitor' = ChatMonitorUpdates(self.model_name, final)
            /\ saved' = ChatSaved(Val(gen.kwargs), final)
            /\ UNCHANGED yielded
    /\ UNCHANGED <<self, call, forwarded, reply, result>>

\* The caller abandons the sequence: the generator is closed where it
\* stands and runs no further.
GenClose ==
    /\ GenActive
    /\ gen' = [gen EXCEPT !.pc = "closed"]
    /\ UNCHANGED <<self, call, forwarded, reply, result, saved, monitor, yielded>>

\* ------------------------------------------------------------------------
\* OllamaEmbeddingWrapper.__call__
\* ------------------------------------------------------------------------
PromptKwargs(options, keep_alive) ==
    [model |-> self.model_name,
     prompt |-> Prompt,
     options |-> MergeOptions(self.options, options),
     keep_alive |-> EffectiveKeepAlive(keep_alive, self.keep_alive)]

\* The monitor update left out.
EmbeddingMonitorUpdatesSkipped(model_name) ==
    <<>>

\* step4 of the embedding call: one update, with the model name only.
EmbeddingMonitorUpdates(model_name) ==
    <<MonitorUpdate(model_name, None, None)>>

\* Record and update the monitor first, then read the embedding.
EmbeddingReturn(kwargs, response) ==
    /\ forwarded' = Some(kwargs)
    /\ reply' = Some(response)
    /\ saved' = <<Invocation(kwargs, response, None)>>
    /\ monitor' = EmbeddingMonitorUpdates(self.model_name)
    /\ result' = IF "embedding" \notin DOMAIN response
                 THEN Raised("KeyError")
                 ELSE Returned(EmbeddingEnvelope(response))
    /\ gen' = NoGen
    /\ yielded' = <<>>

EmbeddingCall(options, keep_alive) ==
    /\ self.kind = "embedding"
    /\ call' = Some([stream |-> None, options |-> options, keep_alive |-> keep_alive])
    /\ UNCHANGED self
    /\ IF MergeRaises(self.options, options)
       THEN FailBeforeClient("TypeError")
       ELSE LET kwargs == PromptKwargs(options, keep_alive) IN
            \/ ClientFails(kwargs)
            \/ \E response \in EmbeddingReplies : EmbeddingReturn(kwargs, response)

\* ------------------------------------------------------------------------
\* OllamaGenerationWrapper.__call__
\* ------------------------------------------------------------------------

\* Record and update the monitor first, then read the text.
GenerationReturn(kwargs, response) ==
    /\ forwarded' = Some(kwargs)
    /\ reply' = Some(response)
    /\ saved' = <<Invocation(kwargs, response, FormattedUsage(response))>>
    /\ monitor' = GenerationMonitorUpdates(self.model_name, response)
    /\ result' = IF "response" \notin DOMAIN response
                 THEN Raised("KeyError")
                 ELSE Returned(GenerationEnvelope(response))
    /\ gen' = NoGen
    /\ yielded' = <<>>

GenerationCall(options, keep_alive) ==
    /\ self.kind = "generation"
    /\ call' = Some([stream |-> None, options |-> options, keep_alive |-> keep_alive])
    /\ UNCHANGED self
    /\ IF MergeRaises(self.options, options)
       THEN FailBeforeClient("TypeError")
       ELSE LET kwargs == PromptKwargs(options, keep_alive) IN
            \/ ClientFails(kwargs)
            \/ \E response \in GenerationReplies : GenerationReturn(kwargs, response)

Next ==
    \/ \E stream \in CallStreams, options \in CallOptions, keep_alive \in CallKeepAlives :
          ChatCall(stream, options, keep_alive)
    \/ \E options \in CallOptions, keep_alive \in CallKeepAlives :
          EmbeddingCall(options, keep_alive)
    \/ \E options \in CallOptions, keep_alive \in CallKeepAlives :
          GenerationCall(options, keep_alive)
    \/ GenNext
    \/ GenClose

Spec == Init /\ [][Next]_vars

\* ------------------------------------------------------------------------
\* Properties
\* ------------------------------------------------------------------------
DictOf(o) == IF o = None THEN <<>> ELSE Val(o)

\* The defaults with the call-supplied keys overwritten.
ExpectedMerge(defaults, supplied) ==
    [k \in DOMAIN defaults \cup DOMAIN supplied |->
        IF k \in DOMAIN supplied THEN supplied[k] ELSE defaults[k]]

RECURSIVE Concat(_)
Concat(strs) ==
    IF strs = <<>> THEN "" ELSE Head(strs) \o Concat(Tail(strs))

Contents(chunks) ==
    [k \in 1..Len(chunks) |-> chunks[k]["message"]["content"]]

BothCounts(response) ==
    "prompt_eval_count" \in DOMAIN response /\ "eval_count" \in DOMAIN response

\* C1: every call completes the option merge without error, and the options
\* forwarded to the client are the constructor defaults (none counting as
\* no keys) with the call-supplied keys overwritten.
C1_MergeNeverFails ==
    call # None =>
        /\ result.error # "TypeError"
        /\ forwarded # None
        /\ DictOf(Val(forwarded).options)
             = ExpectedMerge(DictOf(self.options), DictOf(Val(call).options))

\* C2: a keep_alive string supplied at call time, the empty string
\* included, is the keep_alive forwarded; the constructor default is
\* forwarded only when none is supplied.
C2_KeepAliveOverride ==
    (call # None /\ forwarded # None) =>
        Val(forwarded).keep_alive
          = IF Val(call).keep_alive # None
            THEN Val(Val(call).keep_alive)
            ELSE self.keep_alive

\* C3: once the stream of a streaming chat call is exhausted (zero chunks
\* included) the invocation has been recorded exactly once; an abandoned
\* sequence records nothing; no call records more than once.
C3_RecordedOnceOnExhaustion ==
    /\ gen.pc \in {"done", "raised"} => Len(saved) = 1
    /\ gen.pc = "closed" => saved = <<>>
    /\ gen.pc # "none" => Len(saved) <= 1

\* C4: over chunks c1..cn the generator yields, in order, the cumulative
\* concatenations of the contents of c1..ck; with n >= 1 it runs to its
\* end, and the reply then handed to the recorder is cn with its
\* message.content replaced by the concatenation of all contents.
C4_CumulativeText ==
    gen.pc # "none" =>
        LET chunks == Val(reply)
            n == Len(chunks)
            taken == n - Len(gen.response)
            full == Concat(Contents(chunks)) IN
        /\ yielded = [k \in 1..taken |-> Concat(SubSeq(Contents(chunks), 1, k))]
        /\ gen.pc = "raised" => n = 0
        /\ gen.pc = "done" =>
              /\ n >= 1
              /\ Len(yielded) = n
              /\ Len(saved) = 1
              /\ saved[1].response =
                   [chunks[n] EXCEPT !["message"]["content"] = full]

C4_Witness ==
    /\ gen.pc = "done"
    /\ Len(Val(reply)) = 2
    /\ yielded = <<"A", "AB">>
    /\ saved[1].response["message"]["content"] = "AB"

\* C5: after a chat call (non-streaming, or streaming and fully consumed)
\* or a generation call that returned, the monitor has been updated with
\* the explicit counts of the usage record exactly when the recorded reply
\* carries one, and not at all otherwise; both paths obey the same rule.
C5_MonitorGetsCounts ==
    (/\ self.kind \in {"chat", "generation"}
     /\ result.status = "returned"
     /\ gen.pc \in {"none", "done"}) =>
        monitor =
          IF saved # <<>> /\ saved[1].usage # None
          THEN <<MonitorUpdate(self.model_name,
                               Some(Val(saved[1].usage).prompt_tokens),
                               Some(Val(saved[1].usage).completion_tokens))>>
          ELSE <<>>

\* C6: a call that raises has saved no invocation record and made no
\* monitor update.
C6_FailedCallRecordsNothing ==
    result.status = "raised" => (saved = <<>> /\ monitor = <<>>)

\* C7: a non-streaming chat call or a generation call that returns has
\* recorded the invocation once, with a usage record (prompt_eval_count,
\* eval_count) iff the reply carries both counters; otherwise the usage is
\* absent and the monitor is not updated; the text comes from the reply.
C7_UsageIffBothCounts ==
    (/\ self.kind \in {"chat", "generation"}
     /\ result.status = "returned"
     /\ Val(result.envelope).stream = None) =>
        LET response == Val(reply) IN
        /\ Len(saved) = 1
        /\ BothCounts(response) =>
              saved[1].usage =
                Some([prompt_tokens |-> response["prompt_eval_count"],
                      completion_tokens |-> response["eval_count"]])
        /\ ~BothCounts(response) =>
              (saved[1].usage = None /\ monitor = <<>>)
        /\ Val(result.envelope).text =
              IF self.kind = "chat"
              THEN Some(response["message"]["content"])
              ELSE Some(response["response"])

C7_Witness ==
    /\ self.kind = "generation"
    /\ result.status = "returned"
    /\ "prompt_eval_count" \notin DOMAIN Val(reply)
    /\ "eval_count" \in DOMAIN Val(reply)
    /\ saved[1].usage = None
    /\ Val(result.envelope).text = Some("hi")

\* C8: an embedding call that returns has recorded exactly one invocation,
\* with absent usage, and made exactly one monitor update; its embedding
\* payload is the one-element list of the reply's vector and its raw field
\* is the reply.
C8_EmbeddingRecordsOnce ==
    (self.kind = "embedding" /\ result.status = "returned") =>
        LET response == Val(reply)
            env == Val(result.envelope) IN
        /\ Len(saved) = 1
        /\ saved[1].usage = None
        /\ saved[1].response = response
        /\ Len(monitor) = 1
        /\ env.embedding # None
        /\ Len(Val(env.embedding)) = 1
        /\ Val(env.embedding)[1] = response["embedding"]
        /\ env.raw = Some(response)

C8_Witness ==
    /\ self.kind = "embedding"
    /\ result.status = "returned"
    /\ Val(result.envelope).embedding = Some(<<(<<1, 2>>)>>)

\* C9: a returned envelope has exactly one payload field populated, the
\* one its call kind determines, and its raw field is the object the
\* client returned.
C9_OnePayload ==
    result.status = "returned" =>
        LET env == Val(result.envelope)
            expected == IF self.kind = "embedding" THEN "embedding"
                        ELSE IF self.kind = "chat" /\ Val(forwarded).stream
                             THEN "stream"
                             ELSE "text" IN
        /\ {f \in {"text", "embedding", "stream"} : env[f] # None} = {expected}
        /\ reply # None
        /\ env.raw = reply

C9_Witness ==
    /\ self.kind = "chat"
    /\ result.status = "returned"
    /\ Val(forwarded).stream
    /\ Val(result.envelope).stream # None
    /\ Val(result.envelope).text = None
    /\ Val(result.envelope).raw = reply

\* What a call forwards when an override is absent or present.
ForwardsDefaults ==
    (call # None /\ forwarded # None) =>
        /\ Val(forwarded).model = self.model_name
        /\ Val(call).options = None => Val(forwarded).options = self.options
        /\ Val(call).keep_alive = None => Val(forwarded).keep_alive = self.keep_alive
        /\ self.kind = "chat" =>
             Val(forwarded).stream =
               IF Val(call).stream = None THEN self.stream
               ELSE Val(Val(call).stream)

\* C10: no step changes the wrapper's configuration, and the state a step
\* leaves forwards the stored defaults wherever the call gave no override,
\* an explicit stream value (true or false) overriding the default.
C10_ConfigUnchanged ==
    [][self' = self /\ ForwardsDefaults']_vars

C10_Witness ==
    /\ self.kind = "chat"
    /\ self.stream
    /\ call # None
    /\ Val(call).stream = Some(FALSE)
    /\ result.status = "returned"
    /\ Val(result.envelope).text # None
    /\ ~Val(forwarded).stream
====
